---- MODULE Spec2Model ----
(***************************************************************************)
(* State-machine model of the DalkanSimulator dashboard (src/src/App.js;   *)
(* src/app.js carries the same App component without the live banner).     *)
(*                                                                         *)
(* The state is the React state of the App component.  Every handler that  *)
(* App passes to a mounted child is an operation of the machine; it can be *)
(* invoked whenever the child that receives it is rendered.  A handler's  *)
(* guard is what the handler itself tests; the `disabled` attributes of    *)
(* the buttons are not part of it.  An `await fetch(...)` splits a handler *)
(* in two steps: the part before the await, which records the closure of   *)
(* the invocation, and the continuation that runs when the response        *)
(* arrives, with the values captured by that closure.                       *)
(***************************************************************************)
EXTENDS Integers, Sequences, FiniteSets, Bags, TLC

VARIABLES
    API_TOKEN,        \* TRUE iff process.env.REACT_APP_API_TOKEN is set
    rosterPc,         \* position of the startup effect / fetchCars
    currentPage,
    cars,
    chargers,
    selectedCar,
    selectedCharger,
    radius,
    checkResult,
    carDetails,
    isLoading,
    isChecking,
    apiError,
    pendingChecks,    \* closures of handleCheck invocations awaiting fetch
    lastOp,           \* history: the handler step taken last
    evaluation,       \* the inputs and the outcome of one evaluation
    history,          \* the React state of HistoryScreen while it is mounted
    exported          \* the records and the text of one CSV export

sessionVars == <<currentPage, selectedCar, selectedCharger, radius,
                 checkResult, carDetails, isChecking, apiError>>

vars == <<API_TOKEN, rosterPc, currentPage, cars, chargers, selectedCar,
          selectedCharger, radius, checkResult, carDetails, isLoading,
          isChecking, apiError, pendingChecks, lastOp, evaluation,
          history, exported>>

----------------------------------------------------------------------------
(* JavaScript values *)

Null == [type |-> "null"]
Undefined == [type |-> "undefined"]
Num(n) == [type |-> "number", v |-> n]
Str(s) == [type |-> "string", v |-> s]

\* !v for the object-or-nullish values held in the state
Falsy(v) == v = Null \/ v = Undefined
\* v != null (loose inequality: false for null and for undefined)
NotNullish(v) == v # Null /\ v # Undefined

----------------------------------------------------------------------------
(* Bounds of the model *)

\* most handleCheck invocations whose fetch is outstanding at once
MaxInFlight == 2
\* most report requests one mounted HistoryScreen issues
MaxQueries == 3

----------------------------------------------------------------------------
(* Data *)

\* A latitude/longitude is a position on a local tangent plane: metres north
\* (lat) and metres east (lng) of station C002.  The three stations keep the
\* relative positions they have in the source.
MOCKED_CHARGERS ==
    << [id |-> "C001", location_geo |-> [lat |-> Num(183), lng |-> Num(377)]],
       [id |-> "C002", location_geo |-> [lat |-> Num(0), lng |-> Num(0)]],
       [id |-> "C003", location_geo |-> [lat |-> Num(-10786), lng |-> Num(-14881)]] >>

InitialRadius == 50
SliderMin == 10
SliderStep == 50
\* positions of the slider (min + k * step)
SliderValues == { SliderMin + SliderStep * k : k \in {0, 1} }
\* the position the session moves the slider to
SliderInputs == { SliderMin }
\* numbers onRadiusChange is called with when it is called directly: the
\* slider's positions and numbers on either side of its range
RadiusInputs == SliderValues \cup { 5, 8050 }

\* the roster the detail fetch delivers
Car(n) == [car_number |-> n]
Rosters == { <<Car("A"), Car("B")>> }
\* a `data` that is an object, not an array.  It is held as a one-element
\* tuple around a marker, so that it can stand where arrays stand.
NotAnArray == << [type |-> "object"] >>
\* Array.isArray
IsArray(v) == v # NotAnArray
\* values the two selects can hand to their handlers ("" is the placeholder)
CarNumberInputs == {"A", "B", ""}
ChargerIdInputs == {"C001", "C002", ""}

\* positions a /cars/info record can carry: 50 m east of C001, and unknown
InfoPositions ==
    { [lat |-> Num(183), lng |-> Num(427)],
      [lat |-> Null, lng |-> Num(427)] }

\* messages (the source's texts, in English)
MSG_NO_TOKEN == Str("API token not found")
MSG_TOKEN_INVALID == Str("API token invalid or expired")
\* the two network errors carry the response's status
MSG_LIST_NETWORK(status) ==
    [type |-> "string", v |-> "network error loading car list", status |-> status]
MSG_INFO_NETWORK(status) ==
    [type |-> "string", v |-> "network error loading car details", status |-> status]
MSG_INFO_API == Str("API returned an error loading car details")
MSG_BAD_FORMAT == Str("invalid data format from car list")
MSG_TRANSPORT == Str("Failed to fetch")
MSG_NO_POSITION == Str("no position received for the car or the charger")
MSG_FETCH_FAILED == Str("could not retrieve the car position")

----------------------------------------------------------------------------
(* Array.prototype.find *)

Min(S) == CHOOSE m \in S : \A n \in S : m <= n

FindCar(list, carNumber) ==
    LET hits == { i \in 1..Len(list) : list[i].car_number = carNumber }
    IN  IF hits = {} THEN Undefined ELSE list[Min(hits)]

FindCharger(list, chargerId) ==
    LET hits == { i \in 1..Len(list) : list[i].id = chargerId }
    IN  IF hits = {} THEN Undefined ELSE list[Min(hits)]

----------------------------------------------------------------------------
(* Distances.  A finite distance d is held exactly, as its square in m^2.  *)

Finite(sq) == [kind |-> "finite", sq |-> sq]
Infinity == [kind |-> "Infinity"]
NaN == [kind |-> "NaN"]

\* floor of the square root, by bisection on [lo, hi)
RECURSIVE SqrtBetween(_, _, _)
SqrtBetween(n, lo, hi) ==
    IF hi - lo <= 1 THEN lo
    ELSE LET mid == (lo + hi) \div 2
         IN  IF mid * mid <= n THEN SqrtBetween(n, mid, hi)
                               ELSE SqrtBetween(n, lo, mid)

Isqrt(n) == SqrtBetween(n, 0, 46341)

\* null in any argument gives Infinity; undefined passes the === null
\* test and makes the arithmetic NaN.  Otherwise the haversine distance,
\* which for points a few kilometres apart is the Euclidean distance of
\* their offsets on the local plane.
getDistanceInMeters(lat1, lon1, lat2, lon2) ==
    IF lat1 = Null \/ lon1 = Null \/ lat2 = Null \/ lon2 = Null THEN Infinity
    ELSE IF Undefined \in {lat1, lon1, lat2, lon2} THEN NaN
    ELSE Finite((lat2.v - lat1.v) * (lat2.v - lat1.v)
                + (lon2.v - lon1.v) * (lon2.v - lon1.v))

\* variant: distance < radius
DistanceLeq_strict(distance, r) == distance.kind = "finite" /\ distance.sq < r * r

\* variant: Math.round(distance) <= radius
DistanceLeq_rounded(distance, r) ==
    distance.kind = "finite" /\ (Isqrt(4 * distance.sq) + 1) \div 2 <= r

\* distance <= radius
DistanceLeq(distance, r) == distance.kind = "finite" /\ distance.sq <= r * r

\* Math.round(distance): nearest integer, halves upwards
MathRound(distance) ==
    IF distance.kind = "finite"
    THEN Num((Isqrt(4 * distance.sq) + 1) \div 2)
    ELSE distance

\* variant: only the latitude is tested
Evaluate_latOnly(carInfo, charger, r) ==
    IF NotNullish(carInfo.lat) /\ ~Falsy(charger.location_geo)
    THEN LET distance == getDistanceInMeters(carInfo.lat, carInfo.lng,
                             charger.location_geo.lat, charger.location_geo.lng)
         IN  [status |-> IF DistanceLeq(distance, r) THEN "approved" ELSE "denied",
              distance |-> MathRound(distance)]
    ELSE [status |-> "error", message |-> MSG_NO_POSITION]

\* handleCheck, the branch taken once the car's record is at hand
Evaluate(carInfo, charger, r) ==
    IF NotNullish(carInfo.lat) /\ NotNullish(carInfo.lng)
       /\ ~Falsy(charger.location_geo)
    THEN LET distance == getDistanceInMeters(carInfo.lat, carInfo.lng,
                             charger.location_geo.lat, charger.location_geo.lng)
         IN  [status |-> IF DistanceLeq(distance, r) THEN "approved" ELSE "denied",
              distance |-> MathRound(distance)]
    ELSE [status |-> "error", message |-> MSG_NO_POSITION]

----------------------------------------------------------------------------
(* Which children of App are rendered (App.js 176-206) *)

\* Dashboard calls cars.map while it renders (App.js 237): with a roster
\* that is no array the render throws and React unmounts the whole tree.
RenderThrows == ~isLoading /\ ~IsArray(cars)
DashboardMounted == rosterPc # "init" /\ ~isLoading /\ currentPage = "dashboard"
                    /\ ~RenderThrows
HistoryMounted == rosterPc # "init" /\ ~isLoading /\ currentPage = "history"
                  /\ ~Falsy(selectedCar) /\ ~RenderThrows

\* HistoryScreen's effect gets past its first line and posts the report
\* request (App.js 611-620)
HistoryFetchIssued == HistoryMounted /\ API_TOKEN

\* Dashboard's live distance line and verdict banner (App.js 255-259,
\* 286-310): rendered from the stored position, the selected station and
\* the radius, whatever checkResult is
BannerShown ==
    /\ DashboardMounted
    /\ ~Falsy(selectedCar) /\ ~Falsy(selectedCharger) /\ ~Falsy(carDetails)
\* what each of its getDistanceInMeters calls is given
BannerArguments ==
    << carDetails.lat, carDetails.lng,
       selectedCharger.location_geo.lat, selectedCharger.location_geo.lng >>
BannerDistance ==
    getDistanceInMeters(BannerArguments[1], BannerArguments[2],
                        BannerArguments[3], BannerArguments[4])
\* variant: distance < radius
BannerInRange_strict == DistanceLeq_strict(BannerDistance, radius)

BannerInRange == DistanceLeq(BannerDistance, radius)

----------------------------------------------------------------------------
(* Initial state: the useState defaults *)

Init ==
    /\ API_TOKEN \in BOOLEAN
    /\ rosterPc = "init"
    /\ currentPage = "dashboard"
    /\ cars = <<>>
    /\ chargers = <<>>
    /\ selectedCar = Null
    /\ selectedCharger = Null
    /\ radius = InitialRadius
    /\ checkResult = Null
    /\ carDetails = Null
    /\ isLoading = FALSE
    /\ isChecking = FALSE
    /\ apiError = Null
    /\ pendingChecks = EmptyBag
    /\ lastOp = "none"
    /\ evaluation = Null
    /\ history = Null
    /\ exported = Null

----------------------------------------------------------------------------
(* Startup effect and fetchCars *)

\* variant: the missing token is reported but the effect does not return
Mount_noReturn ==
    /\ rosterPc = "init"
    /\ lastOp' = "mount"
    /\ isLoading' = TRUE
    /\ apiError' = Null
    /\ chargers' = MOCKED_CHARGERS
    /\ rosterPc' = "list"
    /\ UNCHANGED <<exported, history, evaluation, API_TOKEN, currentPage, cars, selectedCar, selectedCharger,
                   radius, checkResult, carDetails, isChecking, pendingChecks>>

\* the effect body up to the first await
Mount ==
    /\ rosterPc = "init"
    /\ lastOp' = "mount"
    /\ IF ~API_TOKEN
       THEN /\ apiError' = MSG_NO_TOKEN
            /\ rosterPc' = "done"
            /\ UNCHANGED <<isLoading, chargers>>
       ELSE /\ isLoading' = TRUE
            /\ apiError' = Null
            /\ chargers' = MOCKED_CHARGERS
            /\ rosterPc' = "list"
    /\ UNCHANGED <<exported, history, evaluation, API_TOKEN, currentPage, cars, selectedCar, selectedCharger,
                   radius, checkResult, carDetails, isChecking, pendingChecks>>

\* responses to GET /cars/list
ListResponses ==
    { [kind |-> "transport"],
      [kind |-> "http", status |-> 401],
      [kind |-> "http", status |-> 500],
      [kind |-> "json", success |-> FALSE, isArray |-> TRUE, length |-> 0],
      [kind |-> "json", success |-> TRUE, isArray |-> FALSE, length |-> 0],
      [kind |-> "json", success |-> TRUE, isArray |-> TRUE, length |-> 0],
      [kind |-> "json", success |-> TRUE, isArray |-> TRUE, length |-> 2] }

\* fetchCars ends: catch (with message msg, or Null for none) and finally
FetchCarsEnd(msg) ==
    /\ apiError' = IF msg = Null THEN apiError ELSE msg
    /\ isLoading' = FALSE
    /\ rosterPc' = "done"

fetchCarsList(resp) ==
    /\ rosterPc = "list"
    /\ lastOp' = "fetchCarsList"
    /\ IF resp.kind = "transport" THEN
            FetchCarsEnd(MSG_TRANSPORT) /\ UNCHANGED cars
       ELSE IF resp.kind = "http" THEN
            FetchCarsEnd(IF resp.status = 401 THEN MSG_TOKEN_INVALID
                                               ELSE MSG_LIST_NETWORK(resp.status))
            /\ UNCHANGED cars
       ELSE IF resp.success /\ resp.isArray THEN
            IF resp.length = 0
            THEN cars' = <<>> /\ FetchCarsEnd(Null)
            ELSE /\ rosterPc' = "info"
                 /\ UNCHANGED <<cars, apiError, isLoading>>
       ELSE FetchCarsEnd(MSG_BAD_FORMAT) /\ UNCHANGED cars
    /\ UNCHANGED <<exported, history, evaluation, API_TOKEN, currentPage, chargers, selectedCar,
                   selectedCharger, radius, checkResult, carDetails,
                   isChecking, pendingChecks>>

\* responses to POST /cars/info for the roster
InfoResponses ==
    { [kind |-> "transport"], [kind |-> "http", status |-> 401],
      [kind |-> "http", status |-> 500],
      [kind |-> "json", success |-> FALSE, data |-> <<>>],
      [kind |-> "json", success |-> TRUE, data |-> NotAnArray] }
    \cup { [kind |-> "json", success |-> TRUE, data |-> r] : r \in Rosters }

fetchCarsInfo(resp) ==
    /\ rosterPc = "info"
    /\ lastOp' = "fetchCarsInfo"
    /\ IF resp.kind = "transport" THEN
            FetchCarsEnd(MSG_TRANSPORT) /\ UNCHANGED cars
       ELSE IF resp.kind = "http" THEN
            FetchCarsEnd(MSG_INFO_NETWORK(resp.status)) /\ UNCHANGED cars
       ELSE IF resp.success THEN
            cars' = resp.data /\ FetchCarsEnd(Null)
       ELSE FetchCarsEnd(MSG_INFO_API) /\ UNCHANGED cars
    /\ UNCHANGED <<exported, history, evaluation, API_TOKEN, currentPage, chargers, selectedCar,
                   selectedCharger, radius, checkResult, carDetails,
                   isChecking, pendingChecks>>

----------------------------------------------------------------------------
(* Handlers of the dashboard *)

\* variant: re-selecting the selected car is skipped
handleCarSelect_skipSame(carNumber) ==
    /\ DashboardMounted
    /\ lastOp' = "handleCarSelect"
    /\ selectedCar' = FindCar(cars, carNumber)
    /\ IF ~Falsy(selectedCar) /\ selectedCar.car_number = carNumber
       THEN UNCHANGED <<carDetails, checkResult>>
       ELSE carDetails' = Null /\ checkResult' = Null
    /\ UNCHANGED <<exported, history, evaluation, API_TOKEN, rosterPc, currentPage, cars, chargers,
                   selectedCharger, radius, isLoading, isChecking, apiError,
                   pendingChecks>>

\* variant: a number that is not in the roster selects a car of that number
handleCarSelect_fallback(carNumber) ==
    /\ DashboardMounted
    /\ lastOp' = "handleCarSelect"
    /\ selectedCar' = IF Falsy(FindCar(cars, carNumber))
                      THEN [car_number |-> carNumber]
                      ELSE FindCar(cars, carNumber)
    /\ carDetails' = Null
    /\ checkResult' = Null
    /\ UNCHANGED <<exported, history, evaluation, API_TOKEN, rosterPc, currentPage, cars, chargers,
                   selectedCharger, radius, isLoading, isChecking, apiError,
                   pendingChecks>>

handleCarSelect(carNumber) ==
    /\ DashboardMounted
    /\ lastOp' = "handleCarSelect"
    /\ selectedCar' = FindCar(cars, carNumber)
    /\ carDetails' = Null
    /\ checkResult' = Null
    /\ UNCHANGED <<exported, history, evaluation, API_TOKEN, rosterPc, currentPage, cars, chargers,
                   selectedCharger, radius, isLoading, isChecking, apiError,
                   pendingChecks>>

\* variant: the station handler resets as the car handler does
handleChargerSelect_clearsDetails(chargerId) ==
    /\ DashboardMounted
    /\ lastOp' = "handleChargerSelect"
    /\ selectedCharger' = FindCharger(chargers, chargerId)
    /\ carDetails' = Null
    /\ checkResult' = Null
    /\ UNCHANGED <<exported, history, evaluation, API_TOKEN, rosterPc, currentPage, cars, chargers,
                   selectedCar, radius, isLoading, isChecking,
                   apiError, pendingChecks>>

handleChargerSelect(chargerId) ==
    /\ DashboardMounted
    /\ lastOp' = "handleChargerSelect"
    /\ selectedCharger' = FindCharger(chargers, chargerId)
    /\ checkResult' = Null
    /\ UNCHANGED <<exported, history, evaluation, API_TOKEN, rosterPc, currentPage, cars, chargers,
                   selectedCar, radius, carDetails, isLoading, isChecking,
                   apiError, pendingChecks>>

\* variant: the stored result is re-decided against the new radius
setRadius_recomputes(n) ==
    /\ DashboardMounted
    /\ lastOp' = "setRadius"
    /\ radius' = n
    /\ checkResult' = IF ~Falsy(checkResult) /\ ~Falsy(carDetails)
                         /\ ~Falsy(selectedCharger)
                      THEN Evaluate(carDetails, selectedCharger, n)
                      ELSE checkResult
    /\ UNCHANGED <<exported, history, evaluation, API_TOKEN, rosterPc, currentPage, cars, chargers,
                   selectedCar, selectedCharger, carDetails,
                   isLoading, isChecking, apiError, pendingChecks>>

setRadius(n) ==
    /\ DashboardMounted
    /\ lastOp' = "setRadius"
    /\ radius' = n
    /\ UNCHANGED <<exported, history, evaluation, API_TOKEN, rosterPc, currentPage, cars, chargers,
                   selectedCar, selectedCharger, checkResult, carDetails,
                   isLoading, isChecking, apiError, pendingChecks>>

\* what the continuation of one handleCheck invocation still refers to
CheckClosure == [car_number |-> selectedCar.car_number,
                 selectedCharger |-> selectedCharger,
                 radius |-> radius]

\* variant: the previous result is cleared before the selections are tested
handleCheck_clearsFirst ==
    /\ DashboardMounted
    /\ checkResult' = Null
    /\ IF Falsy(selectedCar) \/ Falsy(selectedCharger)
       THEN /\ lastOp' = "handleCheckRejected"
            /\ UNCHANGED <<isChecking, apiError, pendingChecks>>
       ELSE /\ BagCardinality(pendingChecks) < MaxInFlight
            /\ lastOp' = "handleCheck"
            /\ isChecking' = TRUE
            /\ apiError' = Null
            /\ pendingChecks' = pendingChecks (+) SetToBag({CheckClosure})
    /\ UNCHANGED <<exported, history, evaluation, API_TOKEN, rosterPc, currentPage, cars, chargers,
                   selectedCar, selectedCharger, radius, carDetails, isLoading>>

\* handleCheck up to `await fetch`
handleCheck ==
    /\ DashboardMounted
    /\ IF Falsy(selectedCar) \/ Falsy(selectedCharger)
       THEN /\ lastOp' = "handleCheckRejected"
            /\ UNCHANGED <<checkResult, isChecking, apiError, pendingChecks>>
       ELSE /\ BagCardinality(pendingChecks) < MaxInFlight
            /\ lastOp' = "handleCheck"
            /\ isChecking' = TRUE
            /\ checkResult' = Null
            /\ apiError' = Null
            /\ pendingChecks' = pendingChecks (+) SetToBag({CheckClosure})
    /\ UNCHANGED <<exported, history, evaluation, API_TOKEN, rosterPc, currentPage, cars, chargers,
                   selectedCar, selectedCharger, radius, carDetails, isLoading>>

\* responses to the POST /cars/info of a check for car n
CheckResponses(n) ==
    { [kind |-> "transport"],
      [kind |-> "http", status |-> 401],
      [kind |-> "http", status |-> 500],
      [kind |-> "json", success |-> FALSE, data |-> <<>>],
      [kind |-> "json", success |-> TRUE, data |-> <<>>],
      [kind |-> "json", success |-> TRUE, data |-> <<Null>>] }
    \cup { [kind |-> "json", success |-> TRUE,
            data |-> << [car_number |-> n, lat |-> p.lat, lng |-> p.lng] >>]
           : p \in InfoPositions }

\* TRUE iff the try block reaches setCarDetails
ReachesCarInfo(resp) ==
    resp.kind = "json" /\ resp.success /\ Len(resp.data) > 0

\* variant: a response for a pairing that is no longer selected is dropped
handleCheckResume_discardStale(c, resp) ==
    /\ BagIn(c, pendingChecks)
    /\ pendingChecks' = pendingChecks (-) SetToBag({c})
    /\ lastOp' = "handleCheckResume"
    /\ IF ~Falsy(selectedCar) /\ selectedCar.car_number = c.car_number
          /\ selectedCharger = c.selectedCharger
       THEN IF ReachesCarInfo(resp)
            THEN LET carInfo == resp.data[1]
                 IN  /\ carDetails' = carInfo
                     /\ checkResult' =
                           IF carInfo = Null
                           THEN [status |-> "error", message |-> MSG_FETCH_FAILED]
                           ELSE Evaluate(carInfo, c.selectedCharger, c.radius)
            ELSE /\ checkResult' = [status |-> "error", message |-> MSG_FETCH_FAILED]
                 /\ UNCHANGED carDetails
       ELSE UNCHANGED <<carDetails, checkResult>>
    /\ isChecking' = FALSE
    /\ UNCHANGED <<exported, history, evaluation, API_TOKEN, rosterPc, currentPage, cars, chargers,
                   selectedCar, selectedCharger, radius, isLoading, apiError>>

\* variant: the flag is cleared at the end of `try`, not in `finally`
handleCheckResume_noFinally(c, resp) ==
    /\ BagIn(c, pendingChecks)
    /\ pendingChecks' = pendingChecks (-) SetToBag({c})
    /\ lastOp' = "handleCheckResume"
    /\ IF ReachesCarInfo(resp) /\ resp.data[1] # Null
       THEN /\ carDetails' = resp.data[1]
            /\ checkResult' = Evaluate(resp.data[1], c.selectedCharger, c.radius)
            /\ isChecking' = FALSE
       ELSE /\ checkResult' = [status |-> "error", message |-> MSG_FETCH_FAILED]
            /\ carDetails' = IF ReachesCarInfo(resp) THEN Null ELSE carDetails
            /\ UNCHANGED isChecking
    /\ UNCHANGED <<exported, history, evaluation, API_TOKEN, rosterPc, currentPage, cars, chargers,
                   selectedCar, selectedCharger, radius, isLoading, apiError>>

\* variant: the catch block also forgets the last position
handleCheckResume_clearOnFail(c, resp) ==
    /\ BagIn(c, pendingChecks)
    /\ pendingChecks' = pendingChecks (-) SetToBag({c})
    /\ lastOp' = "handleCheckResume"
    /\ IF ReachesCarInfo(resp) /\ resp.data[1] # Null
       THEN /\ carDetails' = resp.data[1]
            /\ checkResult' = Evaluate(resp.data[1], c.selectedCharger, c.radius)
       ELSE /\ checkResult' = [status |-> "error", message |-> MSG_FETCH_FAILED]
            /\ carDetails' = Null
    /\ isChecking' = FALSE
    /\ UNCHANGED <<exported, history, evaluation, API_TOKEN, rosterPc, currentPage, cars, chargers,
                   selectedCar, selectedCharger, radius, isLoading, apiError>>

\* variant: the station and the radius are read when the answer arrives
handleCheckResume_currentSelection(c, resp) ==
    /\ BagIn(c, pendingChecks)
    /\ pendingChecks' = pendingChecks (-) SetToBag({c})
    /\ lastOp' = "handleCheckResume"
    /\ IF ReachesCarInfo(resp)
       THEN LET carInfo == resp.data[1]
            IN  /\ carDetails' = carInfo
                /\ checkResult' =
                      IF carInfo = Null \/ Falsy(selectedCharger)
                      THEN [status |-> "error", message |-> MSG_FETCH_FAILED]
                      ELSE Evaluate(carInfo, selectedCharger, radius)
       ELSE /\ checkResult' = [status |-> "error", message |-> MSG_FETCH_FAILED]
            /\ UNCHANGED carDetails
    /\ isChecking' = FALSE
    /\ UNCHANGED <<exported, history, evaluation, API_TOKEN, rosterPc, currentPage, cars, chargers,
                   selectedCar, selectedCharger, radius, isLoading, apiError>>

\* variant: the decision is taken on the position already stored
handleCheckResume_storedPosition(c, resp) ==
    /\ BagIn(c, pendingChecks)
    /\ pendingChecks' = pendingChecks (-) SetToBag({c})
    /\ lastOp' = "handleCheckResume"
    /\ IF ReachesCarInfo(resp)
       THEN LET carInfo == resp.data[1]
            IN  /\ carDetails' = carInfo
                /\ checkResult' =
                      IF carInfo = Null
                      THEN [status |-> "error", message |-> MSG_FETCH_FAILED]
                      ELSE IF ~Falsy(carDetails)
                      THEN Evaluate(carDetails, c.selectedCharger, c.radius)
                      ELSE Evaluate(carInfo, c.selectedCharger, c.radius)
       ELSE /\ checkResult' = [status |-> "error", message |-> MSG_FETCH_FAILED]
            /\ UNCHANGED carDetails
    /\ isChecking' = FALSE
    /\ UNCHANGED <<exported, history, evaluation, API_TOKEN, rosterPc, currentPage, cars, chargers,
                   selectedCar, selectedCharger, radius, isLoading, apiError>>

\* handleCheck from the fetch's settlement to the end of `finally`
handleCheckResume(c, resp) ==
    /\ BagIn(c, pendingChecks)
    /\ pendingChecks' = pendingChecks (-) SetToBag({c})
    /\ lastOp' = "handleCheckResume"
    /\ IF ReachesCarInfo(resp)
       THEN LET carInfo == resp.data[1]
            IN  /\ carDetails' = carInfo
                /\ checkResult' =
                      IF carInfo = Null
                      THEN [status |-> "error", message |-> MSG_FETCH_FAILED]
                      ELSE Evaluate(carInfo, c.selectedCharger, c.radius)
       ELSE /\ checkResult' = [status |-> "error", message |-> MSG_FETCH_FAILED]
            /\ UNCHANGED carDetails
    /\ isChecking' = FALSE
    /\ UNCHANGED <<exported, history, evaluation, API_TOKEN, rosterPc, currentPage, cars, chargers,
                   selectedCar, selectedCharger, radius, isLoading, apiError>>

----------------------------------------------------------------------------
(* HistoryScreen (App.js 596-656).  `history` is Null while the screen is   *)
(* not mounted; while it is, it holds the component's useState values, the  *)
(* report requests still unanswered and the number of requests issued.      *)

\* a date input's value "YYYY-MM-DD", split at the dashes
DateString(year, month, day) == <<year, month, day>>
\* dateRange as the component is constructed: a year ago .. today
InitialDateRange == [from |-> DateString(2025, 11, 5), to |-> DateString(2026, 11, 5)]
\* values the session types into the two date inputs
DateInputs == [from : {DateString(2026, 1, 1)}, to : {DateString(2026, 6, 30)}]

\* "YYYY-MM-DD" -> "DD/MM/YYYY"
formatDateForApi(dateString) ==
    IF dateString = <<>> THEN Null
    ELSE <<dateString[3], dateString[2], dateString[1]>>

MSG_HISTORY == Str("error loading the charging history")

HistoryInitialState ==
    [chargingHistory |-> <<>>, isLoading |-> TRUE, apiError |-> Null,
     dateRange |-> InitialDateRange, pending |-> {}, issued |-> 0]

\* body of the POST /reports/cars/charging request
HistoryRequestBody(car, dateRange) ==
    [car_numbers |-> <<car.car_number>>,
     date_from |-> formatDateForApi(dateRange.from),
     date_to |-> formatDateForApi(dateRange.to)]

\* the effect on [car, dateRange], up to the await: h is the state the
\* render that scheduled it has seen
HistoryEffect(h, car) ==
    IF Falsy(car) \/ ~API_TOKEN THEN h
    ELSE [h EXCEPT !.isLoading = TRUE,
                   !.apiError = Null,
                   !.issued = @ + 1,
                   !.pending = @ \cup {[seq |-> h.issued + 1,
                                        body |-> HistoryRequestBody(car, h.dateRange)]}]

\* the records the remote API reports for a request
HistoryRecords(body) ==
    << [car_number |-> body.car_numbers[1],
        datetime_start |-> body.date_from, datetime_end |-> body.date_to] >>

\* responses to a report request
HistoryResponses(body) ==
    { [kind |-> "transport"],
      [kind |-> "http", status |-> 401],
      [kind |-> "http", status |-> 500],
      [kind |-> "json", success |-> FALSE, data |-> <<>>],
      [kind |-> "json", success |-> TRUE, data |-> <<>>],
      [kind |-> "json", success |-> TRUE, data |-> << HistoryRecords(body) >>] }

\* onChange of a date input: setDateRange({...dateRange, [field]: value}),
\* then the effect of the render that follows
setDateRange(field, value) ==
    /\ HistoryMounted
    /\ history.issued < MaxQueries
    /\ lastOp' = "setDateRange"
    /\ history' = HistoryEffect([history EXCEPT !.dateRange[field] = value],
                                selectedCar)
    /\ UNCHANGED <<exported, evaluation, API_TOKEN, rosterPc, currentPage, cars,
                   chargers, selectedCar, selectedCharger, radius, checkResult,
                   carDetails, isLoading, isChecking, apiError, pendingChecks>>

\* fetchHistory from the fetch's settlement to the end of `finally`
fetchHistoryResume(req, resp) ==
    /\ history # Null
    /\ req \in history.pending
    /\ lastOp' = "fetchHistoryResume"
    /\ history' =
          IF resp.kind = "json" /\ resp.success
          THEN [history EXCEPT
                  !.chargingHistory = IF Len(resp.data) > 0 THEN resp.data[1]
                                                            ELSE <<>>,
                  !.isLoading = FALSE,
                  !.pending = @ \ {req}]
          ELSE [history EXCEPT
                  !.apiError = MSG_HISTORY,
                  !.isLoading = FALSE,
                  !.pending = @ \ {req}]
    /\ UNCHANGED <<exported, evaluation, API_TOKEN, rosterPc, currentPage, cars,
                   chargers, selectedCar, selectedCharger, radius, checkResult,
                   carDetails, isLoading, isChecking, apiError, pendingChecks>>

\* variant: the page is switched without testing the selection
navigateToHistory_noGuard ==
    /\ DashboardMounted
    /\ currentPage' = "history"
    /\ lastOp' = IF ~Falsy(selectedCar) THEN "navigateToHistory"
                                        ELSE "navigateToHistoryRejected"
    /\ history' = IF ~Falsy(selectedCar)
                  THEN HistoryEffect(HistoryInitialState, selectedCar)
                  ELSE history
    /\ UNCHANGED <<exported, evaluation, API_TOKEN, rosterPc, cars, chargers,
                   selectedCar, selectedCharger, radius, checkResult, carDetails,
                   isLoading, isChecking, apiError, pendingChecks>>

\* HistoryScreen is mounted by the render that follows: its state is
\* constructed and its effect runs
navigateToHistory ==
    /\ DashboardMounted
    /\ IF ~Falsy(selectedCar)
       THEN /\ currentPage' = "history" /\ lastOp' = "navigateToHistory"
            /\ history' = HistoryEffect(HistoryInitialState, selectedCar)
       ELSE /\ UNCHANGED currentPage /\ lastOp' = "navigateToHistoryRejected"
            /\ UNCHANGED history
    /\ UNCHANGED <<exported, evaluation, API_TOKEN, rosterPc, cars, chargers,
                   selectedCar, selectedCharger, radius, checkResult, carDetails,
                   isLoading, isChecking, apiError, pendingChecks>>

\* variant: the stored position survives the way back
navigateToDashboard_keepsDetails ==
    /\ HistoryMounted
    /\ lastOp' = "navigateToDashboard"
    /\ currentPage' = "dashboard"
    /\ checkResult' = Null
    /\ history' = Null
    /\ UNCHANGED <<exported, evaluation, API_TOKEN, rosterPc, cars, chargers,
                   selectedCar, selectedCharger, radius, carDetails, isLoading,
                   isChecking, apiError, pendingChecks>>

\* onBack of the history screen; the screen is unmounted, its state and
\* whatever its outstanding requests will answer are gone
navigateToDashboard ==
    /\ HistoryMounted
    /\ lastOp' = "navigateToDashboard"
    /\ currentPage' = "dashboard"
    /\ checkResult' = Null
    /\ carDetails' = Null
    /\ history' = Null
    /\ UNCHANGED <<exported, evaluation, API_TOKEN, rosterPc, cars, chargers,
                   selectedCar, selectedCharger, radius, isLoading, isChecking,
                   apiError, pendingChecks>>

----------------------------------------------------------------------------
(* exportToExcel (App.js 645-656).  A string is the sequence of its         *)
(* characters.                                                              *)

BOM == "\\uFEFF"
DATA_URL_PREFIX == <<"d", "a", "t", "a", ":", "t", "e", "x", "t", "/", "c", "s", "v", ";",
                     "c", "h", "a", "r", "s", "e", "t", "=", "u", "t", "f", "-", "8", ",">>

\* Array.prototype.join on strings
RECURSIVE Join(_, _)
Join(parts, separator) ==
    IF Len(parts) = 0 THEN <<>>
    ELSE IF Len(parts) = 1 THEN parts[1]
    ELSE parts[1] \o separator \o Join(Tail(parts), separator)

\* the nine column labels, transliterated; the sixth carries two double
\* quotes and the ninth an apostrophe, as in the source
headers ==
    << <<"s", "t", "a", "r", "t">>, <<"e", "n", "d">>, <<"d", "u", "r">>,
       <<"%", "s">>, <<"%", "e">>,
       <<"s", "\"", "k", " ", "k", "w", "\"", "h">>,
       <<"c", "o", "s", "t">>, <<"l", "o", "c">>,
       <<"d", "i", "s", "t", " ", "(", "m", "'", ")">> >>

\* `"${[...].join('","')}"`
CsvRow(item) ==
    <<"\"">>
    \o Join(<<item.datetime_start, item.datetime_end, item.duration,
              item.percents_start, item.percents_end, item.total_kw,
              item.total_price, item.location_name, item.distance>>,
            <<"\"", ",", "\"">>)
    \o <<"\"">>

csvContent(chargingHistory) ==
    DATA_URL_PREFIX \o <<BOM>>
    \o Join(<<Join(headers, <<",">>)>>
            \o [i \in 1..Len(chargingHistory) |-> CsvRow(chargingHistory[i])],
            <<"\n">>)

\* encodeURI, character by character: letters, digits and ; , / ? : @ & =
\* + $ - _ . ! ~ * ' ( ) # stay, everything else becomes its UTF-8 escape
EncodeChar(c) ==
    CASE c = "\"" -> <<"%", "2", "2">>
      [] c = "\n" -> <<"%", "0", "A">>
      [] c = " " -> <<"%", "2", "0">>
      [] c = "%" -> <<"%", "2", "5">>
      [] c = BOM -> <<"%", "E", "F", "%", "B", "B", "%", "B", "F">>
      [] OTHER -> <<c>>

\* the concatenation of a sequence of strings
RECURSIVE Flatten(_)
Flatten(parts) ==
    IF Len(parts) = 0 THEN <<>>
    ELSE IF Len(parts) = 1 THEN parts[1]
    ELSE LET half == Len(parts) \div 2
         IN  Flatten(SubSeq(parts, 1, half))
             \o Flatten(SubSeq(parts, half + 1, Len(parts)))

encodeURI(text) == Flatten([i \in 1..Len(text) |-> EncodeChar(text[i])])

\* the href the download link is given
exportToExcel(chargingHistory) == encodeURI(csvContent(chargingHistory))

----------------------------------------------------------------------------
Next ==
    \/ Mount
    \/ \E resp \in ListResponses : fetchCarsList(resp)
    \/ \E resp \in InfoResponses : fetchCarsInfo(resp)
    \/ \E n \in CarNumberInputs : handleCarSelect(n)
    \/ \E id \in ChargerIdInputs : handleChargerSelect(id)
    \/ \E n \in SliderInputs : setRadius(n)
    \/ handleCheck
    \/ \E c \in BagToSet(pendingChecks) :
          \E resp \in CheckResponses(c.car_number) : handleCheckResume(c, resp)
    \/ navigateToHistory
    \/ navigateToDashboard

Spec == Init /\ [][Next]_vars


----------------------------------------------------------------------------
(* The evaluation on its own: every record the remote API can return for   *)
(* the car, every seeded station, every radius the session can hold.        *)

EvalCoordinates(known) == {Null, Undefined} \cup { Num(n) : n \in known }
EvalCarInfos ==
    [ car_number : {"A"},
      lat : EvalCoordinates({0, 183, 184, 191}),
      lng : EvalCoordinates({0, 377, 426, 427}) ]
EvalRadii == {InitialRadius} \cup SliderValues

EvalStep ==
    /\ \E carInfo \in EvalCarInfos, i \in 1..Len(MOCKED_CHARGERS), r \in EvalRadii :
          evaluation' = [carInfo |-> carInfo,
                         charger |-> MOCKED_CHARGERS[i],
                         radius |-> r,
                         result |-> Evaluate(carInfo, MOCKED_CHARGERS[i], r),
                         \* the call the banner makes for the same record
                         distance |-> getDistanceInMeters(
                                          carInfo.lat, carInfo.lng,
                                          MOCKED_CHARGERS[i].location_geo.lat,
                                          MOCKED_CHARGERS[i].location_geo.lng)]
    /\ UNCHANGED <<API_TOKEN, rosterPc, currentPage, cars, chargers,
                   selectedCar, selectedCharger, radius, checkResult,
                   carDetails, isLoading, isChecking, apiError, pendingChecks,
                   lastOp, history, exported>>

EvalSpec == Init /\ [][EvalStep]_vars

\* the fetch of every check is answered in the end
\* The session without proximity checks, onRadiusChange being called with
\* any of RadiusInputs rather than by the slider alone.
RadiusNext ==
    \/ Mount
    \/ \E resp \in ListResponses : fetchCarsList(resp)
    \/ \E resp \in InfoResponses : fetchCarsInfo(resp)
    \/ \E n \in CarNumberInputs : handleCarSelect(n)
    \/ \E id \in ChargerIdInputs : handleChargerSelect(id)
    \/ \E n \in RadiusInputs : setRadius(n)
    \/ navigateToHistory
    \/ navigateToDashboard

RadiusSpec == Init /\ [][RadiusNext]_vars

\* The session without proximity checks, with the history screen's date
\* inputs and the answers to its report requests.
HistoryNext ==
    \/ Mount
    \/ \E resp \in ListResponses : fetchCarsList(resp)
    \/ \E resp \in InfoResponses : fetchCarsInfo(resp)
    \/ \E n \in CarNumberInputs : handleCarSelect(n)
    \/ navigateToHistory
    \/ navigateToDashboard
    \/ \E field \in {"from", "to"} :
          \E value \in {d[field] : d \in DateInputs} : setDateRange(field, value)
    \/ \E req \in (IF history = Null THEN {} ELSE history.pending) :
          \E resp \in HistoryResponses(req.body) : fetchHistoryResume(req, resp)

HistorySpec == Init /\ [][HistoryNext]_vars

----------------------------------------------------------------------------
(* The export on its own: lists of up to two records whose texts carry     *)
(* letters, commas, double quotes and line feeds.                          *)

ExportAlphabet == {"a", ",", "\"", "\n"}
ExportStrings ==
    {<<>>} \cup { <<c>> : c \in ExportAlphabet }
           \cup { <<c, d>> : c \in ExportAlphabet, d \in ExportAlphabet }
HistoryRecord(duration, location_name) ==
    [datetime_start |-> <<"1">>, datetime_end |-> <<"2">>,
     duration |-> duration,
     percents_start |-> <<"4">>, percents_end |-> <<"5">>,
     total_kw |-> <<"6", ".", "5">>, total_price |-> <<"7">>,
     location_name |-> location_name, distance |-> <<"9">>]
ExportRecords ==
    { HistoryRecord(d, l) : d \in {<<>>, <<"1", "h">>}, l \in ExportStrings }
ExportInputs ==
    {<<>>} \cup { <<r>> : r \in ExportRecords }
           \cup { <<r, q>> : r \in ExportRecords, q \in ExportRecords }

ExportStep ==
    /\ exported = Null
    /\ \E records \in ExportInputs :
          exported' = [chargingHistory |-> records,
                       href |-> exportToExcel(records)]
    /\ UNCHANGED <<API_TOKEN, rosterPc, currentPage, cars, chargers,
                   selectedCar, selectedCharger, radius, checkResult,
                   carDetails, isLoading, isChecking, apiError, pendingChecks,
                   lastOp, evaluation, history>>

ExportSpec == Init /\ [][ExportStep]_vars

FairSpec == Spec /\ WF_vars(\E c \in BagToSet(pendingChecks) :
                               \E resp \in CheckResponses(c.car_number) :
                                  handleCheckResume(c, resp))

----------------------------------------------------------------------------
(* Properties *)

ErrFetch == [status |-> "error", message |-> MSG_FETCH_FAILED]
CarNumbersOf(list) == { list[i].car_number : i \in 1..Len(list) }
ChargerIdsOf(list) == { list[i].id : i \in 1..Len(list) }
ElementsOf(list) == { list[i] : i \in 1..Len(list) }
\* a step of handleCheck, whichever branch it takes
IsHandleCheckStep == lastOp' \in {"handleCheck", "handleCheckRejected"}

\* C1: at most one proximity check is in flight at any time (a handleCheck
\* invoked while an earlier one has not resolved issues no second fetch).
C1_AtMostOneCheckInFlight == BagCardinality(pendingChecks) <= 1

\* C2: handleCheck invoked while the car or the station selection is missing
\* issues no fetch and leaves every session field unchanged.
C2_CheckWithoutSelectionIsNoOp ==
    [][ (IsHandleCheckStep /\ (Falsy(selectedCar) \/ Falsy(selectedCharger)))
        => UNCHANGED <<sessionVars, pendingChecks, cars, chargers, isLoading>> ]_vars

C2_Witness ==
    /\ lastOp = "handleCheckRejected"
    /\ checkResult # Null
    /\ carDetails # Null

\* C3: after handleCarSelect(id), for every id the select offers, the last
\* check and the last position are null, also when id is the car already
\* selected, and the selected car is the roster entry whose car_number is id.
C3_SelectVehicleResets ==
    [][ \A n \in CarNumberInputs :
          handleCarSelect(n) =>
            /\ carDetails' = Null
            /\ checkResult' = Null
            /\ n \in CarNumbersOf(cars) =>
                  /\ selectedCar' \in ElementsOf(cars)
                  /\ selectedCar'.car_number = n ]_vars

C3_Witness ==
    /\ lastOp = "handleCarSelect"
    /\ selectedCar = Car("A")
    /\ carDetails = Null /\ checkResult = Null
    /\ pendingChecks # EmptyBag

\* C4: handleChargerSelect(id) selects the station whose id is id and clears
\* the last check; the last position, the selected car, the radius and the
\* page stay as they were.
C4_SelectStationFrame ==
    [][ \A id \in ChargerIdInputs :
          handleChargerSelect(id) =>
            /\ checkResult' = Null
            /\ id \in ChargerIdsOf(chargers) =>
                  /\ selectedCharger' \in ElementsOf(chargers)
                  /\ selectedCharger'.id = id
            /\ UNCHANGED <<carDetails, selectedCar, radius, currentPage>> ]_vars

C4_Witness ==
    /\ lastOp = "handleChargerSelect"
    /\ ~Falsy(selectedCharger)
    /\ carDetails # Null
    /\ checkResult = Null

\* the history page is shown only while a car is selected
C5_HistoryHasCar == currentPage = "history" => ~Falsy(selectedCar)

\* a navigateToHistory step without a selected car is a no-op
C5_RejectedNavigation ==
    (lastOp' \in {"navigateToHistory", "navigateToHistoryRejected"}
     /\ Falsy(selectedCar))
    => UNCHANGED <<sessionVars, pendingChecks, cars, chargers, isLoading>>

\* C5: in every reachable state the history page implies a selected car,
\* and navigateToHistory invoked with no selected car changes nothing.
C5_HistoryRequiresVehicle == []C5_HistoryHasCar /\ [][C5_RejectedNavigation]_vars

C5_Witness ==
    /\ currentPage = "history"
    /\ lastOp = "navigateToHistory"
    /\ ~Falsy(selectedCar)

\* C6: a change of the selected car or station does not cancel a check in
\* flight: whatever is selected when the response arrives, the check
\* result is written, and so is the position when the response carries one.
C6_ResponseWrittenAfterSelectionChange ==
    [][ lastOp' = "handleCheckResume" =>
        \A c \in BagToSet(pendingChecks) :
          \A resp \in CheckResponses(c.car_number) :
            handleCheckResume(c, resp) =>
              /\ checkResult' # Null
              /\ ReachesCarInfo(resp) => carDetails' = resp.data[1] ]_vars

\* the position and the result of car A's check, shown while car B and
\* another station are selected
C6_Witness ==
    /\ lastOp = "handleCheckResume"
    /\ carDetails # Null /\ checkResult # Null
    /\ checkResult.status = "approved"
    /\ ~Falsy(selectedCar) /\ selectedCar.car_number # carDetails.car_number
    /\ ~Falsy(selectedCharger) /\ selectedCharger.id = "C002"

\* C7: once the fetch of a check has been answered, whatever the answer,
\* isChecking is false again.
C7_FlagEventuallyCleared == isChecking ~> ~isChecking

C7_Witness ==
    /\ lastOp = "handleCheckResume"
    /\ checkResult = ErrFetch
    /\ ~isChecking

\* C8: when the fetch of a check fails (transport error, status outside
\* 2xx, success flag false, empty data list) the check result is the
\* "could not retrieve" error and the last position is left as it was.
FetchFailed(resp) ==
    \/ resp.kind \in {"transport", "http"}
    \/ resp.kind = "json" /\ (~resp.success \/ Len(resp.data) = 0)

C8_FetchFailureKeepsPosition ==
    [][ lastOp' = "handleCheckResume" =>
        \A c \in BagToSet(pendingChecks) :
          \A resp \in CheckResponses(c.car_number) :
            (handleCheckResume(c, resp) /\ FetchFailed(resp)) =>
              /\ checkResult' = ErrFetch
              /\ UNCHANGED carDetails ]_vars

C8_Witness ==
    /\ lastOp = "handleCheckResume"
    /\ checkResult = ErrFetch
    /\ carDetails # Null

\* C9: the evaluation answers "error" exactly when a latitude or longitude
\* of the car or of the station, or the station's position itself, is null
\* or missing, whatever the radius.
PositionIncomplete(ev) ==
    \/ Falsy(ev.carInfo.lat) \/ Falsy(ev.carInfo.lng)
    \/ Falsy(ev.charger.location_geo)
    \/ Falsy(ev.charger.location_geo.lat) \/ Falsy(ev.charger.location_geo.lng)

C9_ErrorIffPositionMissing ==
    evaluation # Null =>
        (evaluation.result.status = "error" <=> PositionIncomplete(evaluation))

C9_Witness ==
    /\ evaluation # Null
    /\ evaluation.carInfo.lat # Null /\ evaluation.carInfo.lat # Undefined
    /\ evaluation.carInfo.lng = Undefined
    /\ evaluation.result.status = "error"

\* C10: with both positions complete, the evaluation answers "approved"
\* when the unrounded distance is at most the radius, the distance equal
\* to the radius included, and "denied" otherwise.
SquaredDistance(ev) ==
    LET dLat == ev.charger.location_geo.lat.v - ev.carInfo.lat.v
        dLng == ev.charger.location_geo.lng.v - ev.carInfo.lng.v
    IN  dLat * dLat + dLng * dLng

C10_ApprovedIffWithinRadius ==
    (evaluation # Null /\ ~PositionIncomplete(evaluation)) =>
        evaluation.result.status =
            IF SquaredDistance(evaluation) <= evaluation.radius * evaluation.radius
            THEN "approved" ELSE "denied"

\* the car exactly 50 m from C001, radius 50
C10_Witness ==
    /\ evaluation # Null /\ ~PositionIncomplete(evaluation)
    /\ SquaredDistance(evaluation) = evaluation.radius * evaluation.radius
    /\ evaluation.result.status = "approved"

\* the evaluation reports a distance which, rounded, is the radius
ReportsRadius(ev) ==
    /\ ev # Null /\ ~PositionIncomplete(ev)
    /\ ev.result.distance = Num(ev.radius)

\* C11 as stated: whenever the reported distance, rounded to the nearest
\* metre, equals the radius, the status is "approved".
C11_RoundedEqualsRadiusApproved ==
    ReportsRadius(evaluation) => evaluation.result.status = "approved"

\* C11: when the reported (rounded) distance equals the radius, the status
\* is "approved" exactly when the unrounded distance is at most the radius;
\* an unrounded distance above the radius by less than half a metre is
\* reported as the radius and "denied".
C11_RoundedEqualsRadiusDecidedUnrounded ==
    ReportsRadius(evaluation) =>
        (evaluation.result.status = "approved"
         <=> SquaredDistance(evaluation) <= evaluation.radius * evaluation.radius)

\* 49.65 m from C001, reported as 50 with radius 50, approved
C11_Witness ==
    /\ ReportsRadius(evaluation)
    /\ SquaredDistance(evaluation) < evaluation.radius * evaluation.radius
    /\ evaluation.result.status = "approved"

\* C12: getDistanceInMeters is never given a null (or missing) latitude or
\* longitude: neither by the live banner while it is rendered, nor by
\* handleCheck, whose approved/denied result then never carries the
\* Infinity (or NaN) that such a call returns.
C12_NoNullCoordinateToDistance ==
    /\ BannerShown => \A i \in 1..4 : NotNullish(BannerArguments[i])
    /\ (checkResult # Null /\ checkResult.status # "error")
          => checkResult.distance \notin {Infinity, NaN}

\* C13: in every reachable state the radius is an integer in [10, 8000],
\* whatever number setRadius was called with.
C13_RadiusInRange == radius \in 10..8000

\* C14: a setRadius step changes the radius only: the check result, the
\* stored position, both selections, the page and isChecking stay as they
\* were, and no fetch is issued or answered.
C14_SetRadiusFrame ==
    [][ lastOp' = "setRadius" =>
          UNCHANGED <<checkResult, carDetails, selectedCar, selectedCharger,
                      currentPage, isChecking, isLoading, pendingChecks,
                      rosterPc>> ]_vars

\* the radius is lowered under a result approved at the old radius, while
\* another check is in flight
C14_Witness ==
    /\ lastOp = "setRadius"
    /\ radius = SliderMin
    /\ checkResult # Null /\ checkResult.status = "approved"
    /\ carDetails # Null
    /\ pendingChecks # EmptyBag

\* C15: a navigateToDashboard step shows the dashboard and clears the check
\* result and the stored position; the selected car, the selected station
\* and the radius stay as they were.
C15_BackToDashboardFrame ==
    [][ lastOp' = "navigateToDashboard" =>
          /\ currentPage' = "dashboard"
          /\ checkResult' = Null
          /\ carDetails' = Null
          /\ UNCHANGED <<selectedCar, selectedCharger, radius>> ]_vars

\* back on the dashboard with both selections and the lowered radius kept
C15_Witness ==
    /\ lastOp = "navigateToDashboard"
    /\ currentPage = "dashboard"
    /\ ~Falsy(selectedCar) /\ ~Falsy(selectedCharger)
    /\ radius = SliderMin
    /\ checkResult = Null /\ carDetails = Null

\* checkResult is an approved/denied decision
IsDecision(result) == result # Null /\ result.status \in {"approved", "denied"}

\* the decision for a position, a station and a radius
DecisionFor(position, charger, r) ==
    LET dLat == charger.location_geo.lat.v - position.lat.v
        dLng == charger.location_geo.lng.v - position.lng.v
    IN  IF dLat * dLat + dLng * dLng <= r * r THEN "approved" ELSE "denied"

\* C16: a decision (approved/denied) is written only by the step that takes
\* the response of a fetch in flight, never by the step that issues the
\* fetch or by any other handler; the position stored by that step is the
\* response's, it is complete, and the decision is the one for that
\* position, the station and the radius of the check, whatever position
\* was stored before.
C16_DecisionFromOwnResponse ==
    [][ (IsDecision(checkResult') /\ (checkResult' # checkResult
                                      \/ lastOp' = "handleCheckResume")) =>
          /\ lastOp' = "handleCheckResume"
          /\ \E c \in BagToSet(pendingChecks) :
                /\ pendingChecks' = pendingChecks (-) SetToBag({c})
                /\ carDetails' # Null
                /\ NotNullish(carDetails'.lat) /\ NotNullish(carDetails'.lng)
                /\ carDetails'.car_number = c.car_number
                /\ checkResult'.status =
                      DecisionFor(carDetails', c.selectedCharger, c.radius) ]_vars

\* a decision written while another check is still in flight
C16_Witness ==
    /\ lastOp = "handleCheckResume"
    /\ IsDecision(checkResult)
    /\ carDetails # Null /\ NotNullish(carDetails.lat)
    /\ pendingChecks # EmptyBag

\* a fetch of the startup load (list or detail) is outstanding
RosterFetchInFlight == rosterPc \in {"list", "info"}

\* C17: without an API token, once the startup effect has run, the
\* "token not found" error is set and stays set, and no fetch is ever
\* issued: none of the roster load, none by handleCheck, none by the
\* history screen, whatever the user does.
C17_NoTokenNoRemoteCall ==
    (~API_TOKEN /\ rosterPc # "init") =>
        /\ apiError = MSG_NO_TOKEN
        /\ ~RosterFetchInFlight /\ ~isLoading
        /\ pendingChecks = EmptyBag /\ ~isChecking
        /\ lastOp # "handleCheck"
        /\ ~HistoryFetchIssued

\* without a token the user has tried a proximity check
C17_Witness ==
    /\ ~API_TOKEN
    /\ lastOp = "handleCheckRejected"
    /\ apiError = MSG_NO_TOKEN

\* C18: once the startup effect has run, the station list is the three
\* built-in stations, whether the roster load was started or not and
\* however it went, and a seeded list is never changed again.
C18_StationsSeeded ==
    /\ rosterPc # "init" => chargers = MOCKED_CHARGERS
    /\ chargers \in {<<>>, MOCKED_CHARGERS}

\* the detail response is a failure: transport, status outside 2xx,
\* success flag missing or false, or a payload that is no list
InfoFailed(resp) ==
    \/ resp.kind \in {"transport", "http"}
    \/ resp.kind = "json" /\ (~resp.success \/ ~IsArray(resp.data))

\* the identifier response is good: 2xx, success flag set, list payload
ListGood(resp) == resp.kind = "json" /\ resp.success /\ resp.isArray

\* C19: the roster load leaves the roster a list.  An empty identifier
\* list ends the load with the empty roster, no error and no detail fetch;
\* any other failure of the identifier response or of the detail response
\* (fetch failed, success flag missing, payload not a list) ends it with an
\* error set; whenever the load ends isLoading is false.
C19_RosterLoadOutcome ==
    [][ /\ \A resp \in ListResponses :
              fetchCarsList(resp) =>
                /\ IsArray(cars')
                /\ rosterPc' = "done" => ~isLoading'
                /\ (ListGood(resp) /\ resp.length = 0) =>
                      (cars' = <<>> /\ apiError' = Null /\ rosterPc' = "done")
                /\ ~ListGood(resp) => (apiError' # Null /\ rosterPc' = "done")
        /\ \A resp \in InfoResponses :
              fetchCarsInfo(resp) =>
                /\ IsArray(cars')
                /\ rosterPc' = "done" /\ ~isLoading'
                /\ InfoFailed(resp) => apiError' # Null ]_vars

\* the response has HTTP status 401
Is401(resp) == resp.kind = "http" /\ resp.status = 401

\* C20: a 401 answer to any fetch (identifier list, roster detail, position
\* fetch of a check) is reported as the "token invalid or expired" error.
C20_UnauthorizedReportedDistinctly ==
    [][ /\ \A resp \in ListResponses :
              (fetchCarsList(resp) /\ Is401(resp)) => apiError' = MSG_TOKEN_INVALID
        /\ \A resp \in InfoResponses :
              (fetchCarsInfo(resp) /\ Is401(resp)) => apiError' = MSG_TOKEN_INVALID
        /\ lastOp' = "handleCheckResume" =>
              \A c \in BagToSet(pendingChecks) :
                \A resp \in CheckResponses(c.car_number) :
                  (handleCheckResume(c, resp) /\ Is401(resp)) =>
                     \/ apiError' = MSG_TOKEN_INVALID
                     \/ checkResult'.message = MSG_TOKEN_INVALID ]_vars

\* the report response is a success
HistorySucceeded(resp) == resp.kind = "json" /\ resp.success

\* C21: when a report request is answered the history loading flag is
\* cleared; after a success the held records are the first inner list of
\* the response's data, or none when there is no such element; after a
\* failure an error is set; in both cases the held records are those of
\* the answered query only, so none after a failure.
C21_HistoryQueryOutcome ==
    [][ lastOp' = "fetchHistoryResume" =>
        \A req \in history.pending :
          \A resp \in HistoryResponses(req.body) :
            fetchHistoryResume(req, resp) =>
              /\ ~history'.isLoading
              /\ IF HistorySucceeded(resp)
                 THEN history'.chargingHistory =
                        IF Len(resp.data) > 0 THEN resp.data[1] ELSE <<>>
                 ELSE /\ history'.apiError # Null
                      /\ history'.chargingHistory = <<>> ]_vars

\* C22: the latest report request is authoritative: once every request
\* issued has been answered, records that are held (with no error shown)
\* are those reported for the request issued last, which is the one for
\* the date range now in the inputs.
C22_LatestHistoryRequestWins ==
    (/\ history # Null
     /\ history.pending = {}
     /\ history.apiError = Null
     /\ history.chargingHistory # <<>>)
    => history.chargingHistory =
          HistoryRecords(HistoryRequestBody(selectedCar, history.dateRange))

\* what the download holds: the href without the data-URL prefix, its
\* escapes decoded
\* In an encoded text every "%" opens an escape of two hexadecimal digits;
\* the byte-order mark is the three escapes %EF %BB %BF.
PercentDecode(text) ==
    Flatten([i \in 1..Len(text) |->
        IF text[i] = "%"
        THEN LET code == SubSeq(text, i + 1, i + 2)
             IN  CASE code = <<"2", "2">> -> <<"\"">>
                   [] code = <<"0", "A">> -> <<"\n">>
                   [] code = <<"2", "0">> -> <<" ">>
                   [] code = <<"2", "5">> -> <<"%">>
                   [] code = <<"E", "F">> -> <<BOM>>
                   [] OTHER -> <<>>
        ELSE IF (i > 1 /\ text[i - 1] = "%") \/ (i > 2 /\ text[i - 2] = "%")
        THEN <<>>
        ELSE <<text[i]>>])

DownloadedText(href) ==
    PercentDecode(SubSeq(href, Len(DATA_URL_PREFIX) + 1, Len(href)))

\* text split at every separator that is outside double quotes (at every
\* separator when respectQuotes is FALSE)
Split(text, separator, respectQuotes) ==
    LET quotesBefore(i) == Cardinality({k \in 1..(i - 1) : text[k] = "\""})
        cuts == { i \in 1..Len(text) :
                    /\ text[i] = separator
                    /\ respectQuotes => quotesBefore(i) % 2 = 0 }
        \* the n-th cut; 0 before the first, Len(text) + 1 after the last
        cut(n) == IF n = 0 THEN 0
                  ELSE IF n > Cardinality(cuts) THEN Len(text) + 1
                  ELSE CHOOSE i \in cuts : Cardinality({j \in cuts : j < i}) = n - 1
    IN  [n \in 1..(Cardinality(cuts) + 1) |->
            SubSeq(text, cut(n - 1) + 1, cut(n) - 1)]

\* a field without the double quotes that enclose it
Unquote(field) ==
    IF Len(field) >= 2 /\ field[1] = "\"" /\ field[Len(field)] = "\""
    THEN SubSeq(field, 2, Len(field) - 1)
    ELSE field

\* the rows of the download: split on line feeds, each line split on the
\* commas outside double quotes, each field unquoted
ParsedRows(href) ==
    LET lines == Split(DownloadedText(href), "\n", FALSE)
    IN  [i \in 1..Len(lines) |->
            LET fields == Split(lines[i], ",", TRUE)
            IN  [j \in 1..Len(fields) |-> Unquote(fields[j])]]

FieldsOf(item) ==
    <<item.datetime_start, item.datetime_end, item.duration,
      item.percents_start, item.percents_end, item.total_kw,
      item.total_price, item.location_name, item.distance>>

\* C23: the export round-trips: the download has one header row of nine
\* labels and one row per record, and every row after the header, split on
\* commas outside double quotes, gives back the record's nine values in
\* order.
C23_CsvRoundTrip ==
    exported # Null =>
        LET rows == ParsedRows(exported.href)
            records == exported.chargingHistory
        IN  /\ Len(rows) = 1 + Len(records)
            /\ Len(rows[1]) = 9
            /\ \A i \in 1..Len(records) : rows[i + 1] = FieldsOf(records[i])

\* C24: getDistanceInMeters returns Infinity whenever one of its four
\* arguments is null or missing, and a finite value >= 0 when all four are
\* present.
C24_DistanceInfiniteOrFinite ==
    evaluation # Null =>
        IF PositionIncomplete(evaluation)
        THEN evaluation.distance = Infinity
        ELSE evaluation.distance.kind = "finite" /\ evaluation.distance.sq >= 0

\* C25: after navigateToDashboard the check result and the stored position
\* stay null until handleCheck is invoked again: the step that follows
\* the return, unless it is that new handleCheck, leaves both null, so no
\* answer to a check requested before the return is written.
C25_NullAfterReturnUntilNewCheck ==
    [][ (lastOp = "navigateToDashboard" /\ lastOp' # "handleCheck") =>
          (checkResult' = Null /\ carDetails' = Null) ]_vars

\* C26: isChecking is true exactly while at least one fetch issued by
\* handleCheck is unanswered.
C26_FlagIffFetchOutstanding == isChecking <=> pendingChecks # EmptyBag

\* the answer carries a record with a complete position
HasPosition(resp) ==
    /\ ReachesCarInfo(resp) /\ resp.data[1] # Null
    /\ NotNullish(resp.data[1].lat) /\ NotNullish(resp.data[1].lng)

\* C27: the decision written when a check is answered is the one for the
\* answer's position, the station and the radius the check was requested
\* with, whatever station and radius are selected when the answer
\* arrives; the answer is the one to the request for the car selected
\* when the check was requested.
C27_DecisionUsesRequestTimeValues ==
    [][ lastOp' = "handleCheckResume" =>
        \A c \in BagToSet(pendingChecks) :
          \A resp \in CheckResponses(c.car_number) :
            (handleCheckResume(c, resp) /\ HasPosition(resp)) =>
              /\ resp.data[1].car_number = c.car_number
              /\ checkResult'.status =
                    DecisionFor(resp.data[1], c.selectedCharger, c.radius) ]_vars

\* approved for C001 at radius 50, written while C002 and radius 10 are
\* selected
C27_Witness ==
    /\ lastOp = "handleCheckResume"
    /\ IsDecision(checkResult) /\ checkResult.status = "approved"
    /\ radius = SliderMin
    /\ ~Falsy(selectedCharger) /\ selectedCharger.id = "C002"

\* C28 as stated: whenever the check result is a decision and a position
\* is stored, the live banner says "in range" exactly when the decision
\* is "approved".
C28_BannerAgreesWithResult ==
    (IsDecision(checkResult) /\ BannerShown) =>
        (BannerInRange <=> checkResult.status = "approved")

\* C28: at the moment a check is answered with a decision, if the station
\* and the radius selected are still those the check was requested with,
\* the live banner, when it is shown, says "in range" exactly when the
\* decision is "approved".
C28_BannerAgreesWhenAnswered ==
    [][ lastOp' = "handleCheckResume" =>
        \A c \in BagToSet(pendingChecks) :
          \A resp \in CheckResponses(c.car_number) :
            (/\ handleCheckResume(c, resp)
             /\ IsDecision(checkResult')
             /\ c.selectedCharger = selectedCharger /\ c.radius = radius
             /\ BannerShown') =>
               (BannerInRange' <=> checkResult'.status = "approved") ]_vars

\* the banner and the result card both say yes, 50 m from C001
C28_Witness ==
    /\ lastOp = "handleCheckResume"
    /\ IsDecision(checkResult) /\ checkResult.status = "approved"
    /\ BannerShown /\ BannerInRange
    /\ radius = InitialRadius

\* the messages fetchCars stores when one of its two requests fails
RosterLoadErrors ==
    { MSG_TOKEN_INVALID, MSG_BAD_FORMAT, MSG_TRANSPORT, MSG_INFO_API }
    \cup { MSG_LIST_NETWORK(r.status) : r \in { x \in ListResponses : x.kind = "http" } }
    \cup { MSG_INFO_NETWORK(r.status) : r \in { x \in InfoResponses : x.kind = "http" } }

RosterLoadFailed ==
    rosterPc = "done" /\ API_TOKEN /\ apiError \in RosterLoadErrors

C29_FailedState ==
    RosterLoadFailed =>
        /\ cars = <<>>
        /\ Falsy(selectedCar)
        /\ pendingChecks = EmptyBag /\ ~isChecking
        /\ currentPage = "dashboard" /\ history = Null

C29_FailedStep ==
    /\ (lastOp' \in {"fetchCarsList", "fetchCarsInfo"} /\ apiError' # Null)
          => RosterLoadFailed'
    /\ RosterLoadFailed =>
          /\ RosterLoadFailed' /\ apiError' = apiError
          /\ lastOp' \notin {"fetchCarsList", "fetchCarsInfo", "handleCheck",
                              "handleCheckResume", "navigateToHistory"}
          /\ lastOp' \in {"handleCheckRejected", "navigateToHistoryRejected"}
                => UNCHANGED <<API_TOKEN, rosterPc, currentPage, cars, chargers,
                               selectedCar, selectedCharger, radius, checkResult,
                               carDetails, isLoading, isChecking, apiError,
                               pendingChecks, history>>

\* C29: once a request of the startup load has failed, the roster stays
\* empty and is not loaded again, no car is ever selected, every later
\* handleCheck and navigateToHistory changes nothing, and the error of
\* the load stays displayed.
C29_FailedLoadIsFinal == []C29_FailedState /\ [][C29_FailedStep]_vars

\* after a failed load, a station is selected and a check is asked for
C29_Witness ==
    /\ RosterLoadFailed
    /\ lastOp = "handleCheckRejected"
    /\ ~Falsy(selectedCharger)

====
